---------------------------- MODULE Spec2Model ----------------------------
(***************************************************************************)
(* Model of the code-execution sandbox of ai-tools:                        *)
(*   code_execution_env.py  CodeExecutionEnvironment.validate_code,        *)
(*                          CodeExecutionEnvironment.execute_code,         *)
(*                          execute_agent_code                             *)
(*   agent.py               Agent.save_skill, Agent.execute_skill          *)
(*   mcp_server.py          the capability functions                       *)
(*                                                                         *)
(* A source text is a sequence of lines; every line is one of the          *)
(* statements listed under Statements below.  A call of execute_agent_code *)
(* is a sequence of steps of the calling thread (validate, redirect,       *)
(* compile, one step per executed statement, read the buffer, restore).    *)
(***************************************************************************)
EXTENDS Integers, Sequences, FiniteSets, TLC

VARIABLES
    skills,        \* Agent.skills: skill name -> source template
    safe_globals,  \* execution_env.safe_globals: the globals dict handed to exec
    sys_stdout,    \* the object bound to sys.stdout
    sys_stderr,    \* the object bound to sys.stderr
    buffers,       \* text held by the StringIO objects of each thread's call
    frame,         \* per thread: the activation of execute_skill / execute_agent_code
    repeat         \* the host's record of the preceding call when it re-runs it

vars == <<skills, safe_globals, sys_stdout, sys_stderr, buffers, frame, repeat>>

-----------------------------------------------------------------------------
(* Bounds *)

\* longest source text submitted to execute_agent_code, in lines
MaxStmts == 2

\* longest skill template saved, in lines
MaxTemplate == 2

\* most keyword arguments passed to execute_skill
MaxKwargs == 2

-----------------------------------------------------------------------------
(* Python values *)

PyNone == [type |-> "NoneType"]
PyInt(n) == [type |-> "int", val |-> n]
PyStr(s) == [type |-> "str", val |-> s]
PyDict(d) == [type |-> "dict", val |-> d]
PyFunction(name) == [type |-> "function", val |-> name]

\* an exception object; str(e) is its message
Exc(cls, msg) == [cls |-> cls, msg |-> msg]
NoException == Exc("NoException", "")

\* isinstance(e, Exception): what `except Exception` catches
IsException(e) == e.cls \notin {"NoException", "BaseException"}

\* repr() of a list / tuple of strings, as the f-strings of the error
\* messages print it
RECURSIVE ReprItems(_)
ReprItems(items) ==
    IF items = <<>> THEN ""
    ELSE "'" \o Head(items) \o "'"
         \o (IF Len(items) > 1 THEN ", " ELSE "")
         \o ReprItems(Tail(items))

ReprList(items) == "[" \o ReprItems(items) \o "]"

ReprTuple(items) ==
    "(" \o ReprItems(items) \o (IF Len(items) = 1 THEN "," ELSE "") \o ")"

-----------------------------------------------------------------------------
(* Statements: the lines a source text is made of *)

S_ImportOs   == "import os"
S_FromOs     == "from os import path"
S_Underscore == "_x = 1"
S_Print      == "print('p')"
S_Write      == "json.codecs.sys.stdout.write('w')"
S_WriteV     == "json.codecs.sys.stdout.write('v')"
S_Result     == "result = 1"
S_SetGlobal  == "def setg(): global g; g = 1 -- setg()"
S_ReadGlobal == "try: result = g -- except Exception: result = 'unset'"
S_Raise      == "raise Exception('boom')"
S_RaiseEmpty == "raise Exception()"
S_RaiseBase  == "raise Exception.mro()[1]('stop')"
S_Unclosed   == "("
S_Surrogate  == "x = '\\udc80'"
S_GetDoc     == "result = get_document('abc123')"
S_NoByteCode == "<no byte code>"
S_Eval       == "result = eval('1')"
S_GetMissing == "result = get_document('missing')"
S_NoSuchTool == "result = call_mcp_tool('nosuch')"
S_BadOp      == "result = call_mcp_tool('google_drive', operation='delete')"
S_NoOp       == "result = call_mcp_tool('google_drive')"
S_Rebind     == "def rb(): global get_document; get_document = None -- rb()"
S_MarkerA    == "{{a}}"
S_MarkerB    == "{{b}}"
S_Five       == "5"

Statements ==
    { S_ImportOs, S_FromOs, S_Underscore, S_Print, S_Write, S_Result,
      S_SetGlobal, S_ReadGlobal, S_Raise, S_RaiseEmpty, S_RaiseBase,
      S_Unclosed, S_Surrogate, S_GetDoc, S_NoByteCode, S_Eval,
      S_GetMissing, S_NoSuchTool, S_BadOp, S_NoOp, S_Rebind }

SeqsUpTo(S, n) == UNION { [1..k -> S] : k \in 0..n }

\* the source texts the host submits directly
Sources == SeqsUpTo(Statements, MaxStmts)


-----------------------------------------------------------------------------
(* mcp_server.py: the capability functions *)

\* what a call gives back: the value returned, or the exception raised
Returned(value) == [exc |-> NoException, value |-> value]
Raised(exc) == [exc |-> exc, value |-> PyNone]

\* GoogleDriveTool.execute(operation, **kwargs); kwargs here holds operation
\* too when the caller passed it
GoogleDriveExecute(kwargs) ==
    IF "operation" \notin DOMAIN kwargs
    THEN Raised(Exc("TypeError",
                    "GoogleDriveTool.execute() missing 1 required positional argument: 'operation'"))
    ELSE IF kwargs.operation = "get_document"
    THEN IF "document_id" \in DOMAIN kwargs /\ kwargs.document_id = "abc123"
         THEN Returned(PyDict([id |-> "abc123", title |-> "Q4", content |-> "notes"]))
         ELSE Returned(PyDict([error |-> "Document not found"]))
    ELSE IF kwargs.operation = "upload_file"
    THEN Returned(PyDict([status |-> "uploaded", file_id |-> "xyz789"]))
    ELSE Returned(PyDict([error |-> "Operation " \o kwargs.operation \o " not supported"]))

\* CallTool with the exception of the tool left to the caller
CallToolUncaught(tool_name, kwargs) ==
    IF tool_name # "google_drive"
    THEN Returned(PyDict([error |-> "Tool " \o tool_name \o " not found"]))
    ELSE LET result == GoogleDriveExecute(kwargs) IN
         IF result.exc # NoException
         THEN result
         ELSE Returned(PyDict([success |-> TRUE, result |-> result.value]))

\* MCPServer.call_tool, reached through call_mcp_tool
CallTool(tool_name, kwargs) ==
    IF tool_name # "google_drive"
    THEN Returned(PyDict([error |-> "Tool " \o tool_name \o " not found"]))
    ELSE LET result == GoogleDriveExecute(kwargs) IN
         IF IsException(result.exc)
         THEN Returned(PyDict([error |-> result.exc.msg]))
         ELSE IF result.exc # NoException
         THEN result
         ELSE Returned(PyDict([success |-> TRUE, result |-> result.value]))

\* get_document
GetDocument(document_id) ==
    CallTool("google_drive",
             [operation |-> "get_document", document_id |-> document_id])

-----------------------------------------------------------------------------
(* CodeExecutionEnvironment.validate_code *)

AstNode(kind, module, names, func) ==
    [node |-> kind, module |-> module, names |-> names, func |-> func]

\* the nodes ast.walk yields for one line that validate_code looks at:
\* Import / ImportFrom with their alias names, Call with the name called
\* ("" when the callee is not a plain name)
AstNodes(stmt) ==
    CASE stmt = S_ImportOs   -> <<AstNode("Import", "", <<"os">>, "")>>
      [] stmt = S_FromOs     -> <<AstNode("ImportFrom", "os", <<"path">>, "")>>
      [] stmt = S_Print      -> <<AstNode("Call", "", <<>>, "print")>>
      [] stmt = S_Write      -> <<AstNode("Call", "", <<>>, "")>>
      [] stmt = S_WriteV     -> <<AstNode("Call", "", <<>>, "")>>
      [] stmt = S_SetGlobal  -> <<AstNode("Call", "", <<>>, "setg")>>
      [] stmt = S_Rebind     -> <<AstNode("Call", "", <<>>, "rb")>>
      [] stmt = S_Raise      -> <<AstNode("Call", "", <<>>, "Exception")>>
      [] stmt = S_RaiseEmpty -> <<AstNode("Call", "", <<>>, "Exception")>>
      [] stmt = S_RaiseBase  -> <<AstNode("Call", "", <<>>, "")>>
      [] stmt = S_GetDoc     -> <<AstNode("Call", "", <<>>, "get_document")>>
      [] stmt = S_Eval       -> <<AstNode("Call", "", <<>>, "eval")>>
      [] stmt = S_GetMissing -> <<AstNode("Call", "", <<>>, "get_document")>>
      [] stmt \in {S_NoSuchTool, S_BadOp, S_NoOp}
                             -> <<AstNode("Call", "", <<>>, "call_mcp_tool")>>
      [] OTHER               -> <<>>

InSeq(x, s) == \E i \in 1..Len(s) : s[i] = x

\* ast.parse(code): the tree (its nodes, in walk order) or the exception.
\* A lone surrogate cannot be encoded for the parser (UnicodeEncodeError, a
\* ValueError), an unclosed bracket is a SyntaxError.
RECURSIVE WalkNodes(_)
WalkNodes(code) ==
    IF code = <<>> THEN <<>> ELSE AstNodes(Head(code)) \o WalkNodes(Tail(code))

AstParse(code) ==
    IF InSeq(S_Surrogate, code)
    THEN [exc |-> Exc("UnicodeEncodeError", "'utf-8' codec can't encode character"),
          tree |-> <<>>]
    ELSE IF InSeq(S_Unclosed, code)
    THEN [exc |-> Exc("SyntaxError", "'(' was never closed"), tree |-> <<>>]
    ELSE [exc |-> NoException, tree |-> WalkNodes(code)]

DeniedModules == {"os", "sys", "subprocess", "shutil", "socket", "urllib.request"}

DeniedCalls == {"eval", "exec", "compile"}

\* the inner loop over node.names: one entry per alias whose name is denied
RECURSIVE DangerousAliases(_)
DangerousAliases(names) ==
    IF names = <<>> THEN <<>>
    ELSE (IF Head(names) \in DeniedModules
          THEN <<"Dangerous import: " \o Head(names)>> ELSE <<>>)
         \o DangerousAliases(Tail(names))

\* what one node appends to dangerous_nodes
NodeViolations(n) ==
    IF n.node \in {"Import", "ImportFrom"}
    THEN DangerousAliases(n.names)
    ELSE IF n.node = "Call" /\ n.func \in DeniedCalls
    THEN <<"Dangerous function call: " \o n.func>>
    ELSE <<>>

RECURSIVE DangerousNodes(_)
DangerousNodes(tree) ==
    IF tree = <<>> THEN <<>>
    ELSE NodeViolations(Head(tree)) \o DangerousNodes(Tail(tree))

\* validate_code: the verdict it returns, or the exception it lets through
\* (only SyntaxError is caught)
ValidateCode(code) ==
    LET parsed == AstParse(code) IN
    IF parsed.exc.cls = "SyntaxError"
    THEN [exc |-> NoException,
          value |-> [valid |-> FALSE,
                     errors |-> <<"Syntax error: " \o parsed.exc.msg>>]]
    ELSE IF parsed.exc # NoException
    THEN [exc |-> parsed.exc, value |-> [valid |-> FALSE, errors |-> <<>>]]
    ELSE LET dangerous_nodes == DangerousNodes(parsed.tree) IN
         [exc |-> NoException,
          value |-> [valid |-> dangerous_nodes = <<>>, errors |-> dangerous_nodes]]

-----------------------------------------------------------------------------
(* The restricted compiler and the interpreter, as execute_code uses them *)

\* the compiled form of a source text
ByteCode(code) == [type |-> "code", val |-> code]

\* error_log of compile_restricted_exec: one entry per line the restricted
\* grammar rejects (a name starting with "_"), or the parse error
RECURSIVE ErrorLog(_)
ErrorLog(code) ==
    IF code = <<>> THEN <<>>
    ELSE (IF Head(code) = S_Underscore
          THEN <<"\"_x\" is an invalid variable name because it starts with \"_\"">>
          ELSE IF Head(code) = S_Unclosed
          THEN <<"SyntaxError: '(' was never closed">>
          ELSE IF Head(code) = S_Surrogate
          THEN <<"'utf-8' codec can't encode character">>
          ELSE IF Head(code) = S_Eval
          THEN <<"Line 1: Eval calls are not allowed.">>
          ELSE <<>>)
         \o ErrorLog(Tail(code))

\* compile_restricted_exec(code): (byte_code, error_log).  With errors there
\* is no byte code.  S_NoByteCode stands for a source for which the library
\* reports no error and yields no byte code either, the case execute_code
\* guards against in lines 140-143.
CompileRestrictedExec(code) ==
    IF ErrorLog(code) # <<>>
    THEN [byte_code |-> PyNone, error_log |-> ErrorLog(code)]
    ELSE IF InSeq(S_NoByteCode, code)
    THEN [byte_code |-> PyNone, error_log |-> <<>>]
    ELSE [byte_code |-> ByteCode(code), error_log |-> <<>>]

\* self.safe_globals as __init__ builds it: the hooks and the capability
\* functions a program of the model can name
SafeGlobalsInit ==
    [ _print_      |-> PyFunction("lambda x: x"),
      _getattr_    |-> PyFunction("getattr"),
      get_document |-> PyFunction("get_document"),
      call_mcp_tool |-> PyFunction("call_mcp_tool") ]

\* calling the object bound to _print_ with one argument
CallPrintHook(hook, arg) ==
    IF hook = PyFunction("lambda x: x") THEN arg ELSE PyNone

\* the outcome of executing one line against (globals, locals):
\*   exc     the exception it raises, or NoException
\*   locals, globals   the namespaces afterwards
\*   write   the text it writes to sys.stdout
\*   called  the capability functions it calls
Effect(exc, locals, globals, write, called) ==
    [exc |-> exc, locals |-> locals, globals |-> globals,
     write |-> write, called |-> called]

Bind(ns, name, value) == (name :> value) @@ ns

\* name lookup at module level: locals, then globals
Lookup(name, locals, globals) ==
    IF name \in DOMAIN locals THEN locals[name]
    ELSE IF name \in DOMAIN globals THEN globals[name]
    ELSE PyNone

Bound(name, locals, globals) == name \in DOMAIN locals \cup DOMAIN globals

\* result = f(...): f is looked up and called; what the call returns is
\* bound to result, what it raises is raised by the line
CallAndBind(fname, outcome, locals, globals) ==
    IF Lookup(fname, locals, globals) # PyFunction(fname)
    THEN Effect(Exc("TypeError", "'NoneType' object is not callable"),
                locals, globals, "", {})
    ELSE IF outcome.exc # NoException
    THEN Effect(outcome.exc, locals, globals, "", {fname})
    ELSE Effect(NoException, Bind(locals, "result", outcome.value),
                globals, "", {fname})

ExecStatement(stmt, locals, globals) ==
    CASE stmt = S_Result ->
           Effect(NoException, Bind(locals, "result", PyInt(1)), globals, "", {})
      [] stmt = S_SetGlobal ->
           \* def binds setg in the local namespace; the call stores g in the
           \* function's globals, which is the dict passed to exec
           Effect(NoException, Bind(locals, "setg", PyFunction("setg")),
                  Bind(globals, "g", PyInt(1)), "", {})
      [] stmt = S_Rebind ->
           \* the same store, into a name the constructor bound
           Effect(NoException, Bind(locals, "rb", PyFunction("rb")),
                  Bind(globals, "get_document", PyNone), "", {})
      [] stmt = S_ReadGlobal ->
           Effect(NoException,
                  Bind(locals, "result",
                       IF Bound("g", locals, globals)
                       THEN Lookup("g", locals, globals) ELSE PyStr("unset")),
                  globals, "", {})
      [] stmt = S_GetDoc ->
           CallAndBind("get_document", GetDocument("abc123"), locals, globals)
      [] stmt = S_GetMissing ->
           CallAndBind("get_document", GetDocument("missing"), locals, globals)
      [] stmt = S_NoSuchTool ->
           CallAndBind("call_mcp_tool", CallTool("nosuch", <<>>), locals, globals)
      [] stmt = S_BadOp ->
           CallAndBind("call_mcp_tool",
                       CallTool("google_drive", [operation |-> "delete"]),
                       locals, globals)
      [] stmt = S_NoOp ->
           CallAndBind("call_mcp_tool", CallTool("google_drive", <<>>),
                       locals, globals)
      [] stmt = S_Print ->
           \* the restricted compiler rewrites print(...) into
           \* _print = _print_(_getattr_); _print._call_print(...)
           LET printer == CallPrintHook(Lookup("_print_", locals, globals),
                                        Lookup("_getattr_", locals, globals)) IN
           IF printer.type = "PrintCollector"
           THEN Effect(NoException, Bind(locals, "_print", printer), globals, "", {})
           ELSE Effect(Exc("AttributeError",
                           "'builtin_function_or_method' object has no attribute '_call_print'"),
                       Bind(locals, "_print", printer), globals, "", {})
      [] stmt = S_Write ->
           Effect(NoException, locals, globals, "w", {})
      [] stmt = S_WriteV ->
           Effect(NoException, locals, globals, "v", {})
      [] stmt = S_Raise ->
           Effect(Exc("Exception", "boom"), locals, globals, "", {})
      [] stmt = S_RaiseEmpty ->
           Effect(Exc("Exception", ""), locals, globals, "", {})
      [] stmt = S_RaiseBase ->
           Effect(Exc("BaseException", "stop"), locals, globals, "", {})
      [] stmt \in {S_ImportOs, S_FromOs} ->
           \* __builtins__ of safe_globals holds no __import__
           Effect(Exc("ImportError", "__import__ not found"), locals, globals, "", {})
      [] stmt = S_MarkerA ->
           Effect(Exc("NameError", "name 'a' is not defined"), locals, globals, "", {})
      [] stmt = S_MarkerB ->
           Effect(Exc("NameError", "name 'b' is not defined"), locals, globals, "", {})
      [] OTHER ->
           Effect(NoException, locals, globals, "", {})

-----------------------------------------------------------------------------
(* Streams *)

Console(chan) == [io |-> "console", chan |-> chan]
StringIO(t, chan) == [io |-> "StringIO", owner |-> t, chan |-> chan]

\* stream.write(text): a StringIO keeps the text, the console's text leaves
\* the model
WriteTo(stream, text, bufs) ==
    IF stream.io = "StringIO"
    THEN [bufs EXCEPT ![stream.owner][stream.chan] = @ \o text]
    ELSE bufs

EmptyBuffers == [out |-> "", err |-> ""]

-----------------------------------------------------------------------------
(* State *)

Threads == {"main", "worker"}

EmptyDict == [k \in {} |-> PyNone]

NoReturn == [kind |-> "none"]
Return(value) == [kind |-> "return", value |-> value]
Raise(exc) == [kind |-> "raise", value |-> exc]

NoRepeat == [kind |-> "none"]

\* a thread that is in no call
IdleFrame ==
    [ pc          |-> "idle",
      entry       |-> "",        \* the function the host called
      skill_name  |-> "",        \* execute_skill's skill_name
      kwargs      |-> <<>>,      \* execute_skill's **kwargs, in call order
      code        |-> <<>>,      \* the source text handed to execute_agent_code
      result      |-> PyNone,    \* execute_code's result dict
      old_stdout  |-> PyNone,
      old_stderr  |-> PyNone,
      byte_code   |-> PyNone,
      local_vars  |-> EmptyDict,
      ip          |-> 0,         \* index of the next line exec runs
      exc         |-> NoException, \* the exception in flight
      ret         |-> NoReturn,  \* what the call gave back to the host
      trace       |-> {} ]       \* what the call has done so far

Init ==
    /\ skills = EmptyDict
    /\ safe_globals = SafeGlobalsInit
    /\ sys_stdout = Console("out")
    /\ sys_stderr = Console("err")
    /\ buffers = [t \in Threads |-> EmptyBuffers]
    /\ frame = [t \in Threads |-> IdleFrame]
    /\ repeat = NoRepeat

CanCall(t) == frame[t].pc = "idle"

-----------------------------------------------------------------------------
(* execute_agent_code *)

\* the envelope of a failed validation
ValidationFailure(errors) ==
    [success |-> FALSE,
     error |-> PyStr("Code validation failed: " \o ReprList(errors))]

\* execute_agent_code(code) up to its call of execute_code: the frame f of
\* the caller after validate_code has run
AgentCodeFrame(f, code) ==
    LET validation_result == ValidateCode(code)
        g == [f EXCEPT !.code = code, !.trace = @ \cup {"validate"}]
    IN  IF validation_result.exc # NoException
        THEN [g EXCEPT !.pc = "done", !.ret = Raise(validation_result.exc)]
        ELSE IF ~validation_result.value.valid
        THEN [g EXCEPT !.pc = "done",
                       !.ret = Return(ValidationFailure(validation_result.value.errors))]
        ELSE [g EXCEPT !.pc = "execute_code"]

\* the host calls execute_agent_code(src)
ExecuteAgentCode(t) ==
    /\ CanCall(t)
    /\ \E src \in Sources :
          frame' = [frame EXCEPT ![t] =
                    AgentCodeFrame([IdleFrame EXCEPT !.entry = "execute_agent_code"], src)]
    /\ repeat' = NoRepeat
    /\ UNCHANGED <<skills, safe_globals, sys_stdout, sys_stderr, buffers>>

\* the host calls execute_agent_code again with the source of the call that
\* just returned, and keeps the first envelope to compare
ExecuteAgentCodeAgain(t) ==
    /\ frame[t].pc = "done"
    /\ frame[t].entry = "execute_agent_code"
    /\ frame' = [frame EXCEPT ![t] =
                    AgentCodeFrame([IdleFrame EXCEPT !.entry = "execute_agent_code"],
                                   frame[t].code)]
    /\ repeat' = [kind |-> "again", first |-> frame[t].ret]
    /\ UNCHANGED <<skills, safe_globals, sys_stdout, sys_stderr, buffers>>

-----------------------------------------------------------------------------
(* CodeExecutionEnvironment.execute_code, step by step *)

\* lines 114-130: the result dict, the saved streams, the fresh buffers,
\* the redirection
Redirect(t) ==
    /\ frame[t].pc = "execute_code"
    /\ frame' = [frame EXCEPT ![t] =
                    [@ EXCEPT !.pc = "compile",
                              !.result = [success |-> TRUE, output |-> PyStr(""),
                                          result |-> PyNone, error |-> PyNone],
                              !.old_stdout = sys_stdout,
                              !.old_stderr = sys_stderr,
                              !.trace = @ \cup {"redirect"}]]
    /\ buffers' = [buffers EXCEPT ![t] = EmptyBuffers]
    /\ sys_stdout' = StringIO(t, "out")
    /\ sys_stderr' = StringIO(t, "err")
    /\ UNCHANGED <<skills, safe_globals, repeat>>

\* Compile without the test of lines 140-143: exec is handed None and
\* raises TypeError inside the try block
CompileNoneUnguarded(t) ==
    /\ frame[t].pc = "compile"
    /\ LET c == CompileRestrictedExec(frame[t].code) IN
          frame' = [frame EXCEPT ![t] =
             LET f == [@ EXCEPT !.trace = @ \cup {"compile"}] IN
             IF c.error_log # <<>>
             THEN [f EXCEPT !.pc = "finally",
                            !.result = [@ EXCEPT !.success = FALSE,
                                                 !.error = PyStr("Compilation errors: "
                                                              \o ReprTuple(c.error_log))]]
             ELSE IF c.byte_code = PyNone
             THEN [f EXCEPT !.pc = "except",
                            !.exc = Exc("TypeError",
                                        "exec() arg 1 must be a string, bytes or code object"),
                            !.trace = @ \cup {"exec"}]
             ELSE [f EXCEPT !.pc = "exec",
                            !.byte_code = c.byte_code,
                            !.local_vars = EmptyDict,
                            !.ip = 1,
                            !.trace = @ \cup {"exec"}]]
    /\ UNCHANGED <<skills, safe_globals, sys_stdout, sys_stderr, buffers, repeat>>

\* lines 133-146: compile; the two early returns; the fresh local_vars
Compile(t) ==
    /\ frame[t].pc = "compile"
    /\ LET c == CompileRestrictedExec(frame[t].code) IN
          frame' = [frame EXCEPT ![t] =
             LET f == [@ EXCEPT !.trace = @ \cup {"compile"}] IN
             IF c.error_log # <<>>
             THEN [f EXCEPT !.pc = "finally",
                            !.result = [@ EXCEPT !.success = FALSE,
                                                 !.error = PyStr("Compilation errors: "
                                                              \o ReprTuple(c.error_log))]]
             ELSE IF c.byte_code = PyNone
             THEN [f EXCEPT !.pc = "finally",
                            !.result = [@ EXCEPT !.success = FALSE,
                                                 !.error = PyStr("Compilation failed: returned None")]]
             ELSE [f EXCEPT !.pc = "exec",
                            !.byte_code = c.byte_code,
                            !.local_vars = EmptyDict,
                            !.ip = 1,
                            !.trace = @ \cup {"exec"}]]
    /\ UNCHANGED <<skills, safe_globals, sys_stdout, sys_stderr, buffers, repeat>>

\* line 147: exec runs the next line of the byte code with self.safe_globals
\* as globals and local_vars as locals
ExecStep(t) ==
    /\ frame[t].pc = "exec"
    /\ frame[t].ip <= Len(frame[t].byte_code.val)
    /\ LET e == ExecStatement(frame[t].byte_code.val[frame[t].ip],
                              frame[t].local_vars, safe_globals)
       IN  /\ frame' = [frame EXCEPT ![t] =
                  [@ EXCEPT !.local_vars = e.locals,
                            !.trace = @ \cup (IF e.called # {} THEN {"capability"} ELSE {}),
                            !.exc = e.exc,
                            !.ip = IF e.exc = NoException THEN @ + 1 ELSE @,
                            !.pc = IF e.exc = NoException THEN "exec"
                                   ELSE IF IsException(e.exc) THEN "except"
                                   ELSE "finally"]]
           /\ safe_globals' = e.globals
           /\ buffers' = WriteTo(sys_stdout, e.write, buffers)
    /\ UNCHANGED <<skills, sys_stdout, sys_stderr, repeat>>

\* ReadResult with a missing result variable reported as a failure
ReadResultRequired(t) ==
    /\ frame[t].pc = "exec"
    /\ frame[t].ip > Len(frame[t].byte_code.val)
    /\ frame' = [frame EXCEPT ![t] =
                    [@ EXCEPT !.pc = "finally",
                              !.result = IF "result" \in DOMAIN frame[t].local_vars
                                  THEN [@ EXCEPT !.output = PyStr(buffers[t].out),
                                                 !.result = frame[t].local_vars["result"]]
                                  ELSE [@ EXCEPT !.output = PyStr(buffers[t].out),
                                                 !.success = FALSE,
                                                 !.error = PyStr("no result")]]]
    /\ UNCHANGED <<skills, safe_globals, sys_stdout, sys_stderr, buffers, repeat>>

\* lines 150-151: exec came back; read the buffer and the result variable
ReadResult(t) ==
    /\ frame[t].pc = "exec"
    /\ frame[t].ip > Len(frame[t].byte_code.val)
    /\ frame' = [frame EXCEPT ![t] =
                    [@ EXCEPT !.pc = "finally",
                              !.result = [@ EXCEPT
                                  !.output = PyStr(buffers[t].out),
                                  !.result = IF "result" \in DOMAIN frame[t].local_vars
                                             THEN frame[t].local_vars["result"]
                                             ELSE PyNone]]]
    /\ UNCHANGED <<skills, safe_globals, sys_stdout, sys_stderr, buffers, repeat>>

\* lines 153-156: except Exception as e
Except(t) ==
    /\ frame[t].pc = "except"
    /\ frame' = [frame EXCEPT ![t] =
                    [@ EXCEPT !.pc = "finally",
                              !.exc = NoException,
                              !.result = [@ EXCEPT
                                  !.success = FALSE,
                                  !.error = PyStr(frame[t].exc.msg),
                                  !.output = PyStr(buffers[t].out)]]]
    /\ UNCHANGED <<skills, safe_globals, sys_stdout, sys_stderr, buffers, repeat>>

\* Finally with the restoring assignments at the end of the try block instead:
\* the early returns and the exceptions skip them
FinallyAfterTry(t) ==
    /\ frame[t].pc = "finally"
    /\ LET reached == frame[t].exc = NoException /\ frame[t].result.success IN
       /\ sys_stdout' = IF reached THEN frame[t].old_stdout ELSE sys_stdout
       /\ sys_stderr' = IF reached THEN frame[t].old_stderr ELSE sys_stderr
    /\ frame' = [frame EXCEPT ![t] =
                    [@ EXCEPT !.pc = "done",
                              !.trace = @ \cup {"restore"},
                              !.ret = IF frame[t].exc = NoException
                                      THEN Return(frame[t].result)
                                      ELSE Raise(frame[t].exc)]]
    /\ UNCHANGED <<skills, safe_globals, buffers, repeat>>

\* lines 157-162: finally restores the streams; then the call returns
\* result, or the exception in flight leaves it
Finally(t) ==
    /\ frame[t].pc = "finally"
    /\ sys_stdout' = frame[t].old_stdout
    /\ sys_stderr' = frame[t].old_stderr
    /\ frame' = [frame EXCEPT ![t] =
                    [@ EXCEPT !.pc = "done",
                              !.trace = @ \cup {"restore"},
                              !.ret = IF frame[t].exc = NoException
                                      THEN Return(frame[t].result)
                                      ELSE Raise(frame[t].exc)]]
    /\ UNCHANGED <<skills, safe_globals, buffers, repeat>>

\* the host has the outcome of the call (Agent.execute_task hands it on)
\* and the thread is free for the next call
ReturnToHost(t) ==
    /\ frame[t].pc = "done"
    /\ frame' = [frame EXCEPT ![t] = IdleFrame]
    /\ repeat' = NoRepeat
    /\ UNCHANGED <<skills, safe_globals, sys_stdout, sys_stderr, buffers>>

-----------------------------------------------------------------------------
(* Agent.save_skill and Agent.execute_skill *)

SkillNames == {"s", "t"}

TemplateStatements == {S_MarkerA, S_MarkerB, S_Result}

SkillTemplates == SeqsUpTo(TemplateStatements, MaxTemplate)

Keys == {"a", "b"}

\* a str argument whose text is the given lines
PyText(lines) == [type |-> "str", lines |-> lines]

ArgValues == {PyText(<<S_MarkerB>>), PyText(<<S_Result>>), PyInt(5)}

\* **kwargs: key/value pairs in the order of the call, keys distinct
Kwargs ==
    { kw \in SeqsUpTo([key : Keys, value : ArgValues], MaxKwargs) :
        \A i, j \in 1..Len(kw) : i # j => kw[i].key # kw[j].key }

\* str(value), as lines of source text
Str(value) ==
    CASE value.type = "str" -> value.lines
      [] value.type = "int" -> <<(<<"0", "1", "2", "3", "4", "5", "6", "7", "8", "9">>)[value.val + 1]>>
      [] OTHER              -> <<"None">>

\* f"{{{{{key}}}}}"
Marker(key) == "{{" \o key \o "}}"

\* code.replace(old, new): every occurrence of the line old, left to right
RECURSIVE Replace(_, _, _)
Replace(code, old, new) ==
    IF code = <<>> THEN <<>>
    ELSE (IF Head(code) = old THEN new ELSE <<Head(code)>>)
         \o Replace(Tail(code), old, new)

\* the loop of execute_skill over kwargs.items()
RECURSIVE SubstituteKwargs(_, _)
SubstituteKwargs(code, kwargs) ==
    IF kwargs = <<>> THEN code
    ELSE SubstituteKwargs(Replace(code, Marker(Head(kwargs).key), Str(Head(kwargs).value)),
                          Tail(kwargs))

\* the envelope of an unknown skill
SkillNotFound(skill_name) ==
    [success |-> FALSE, error |-> PyStr("Skill '" \o skill_name \o "' not found")]

\* the frame of a call save_skill(skill_name, code) that has come back
SavedFrame(skill_name, code) ==
    [IdleFrame EXCEPT !.entry = "save_skill",
                      !.skill_name = skill_name,
                      !.code = code,
                      !.pc = "done",
                      !.ret = Return(PyNone)]

\* SaveSkill that keeps the template of the first save:
\* self.skills.setdefault(skill_name, code)
SaveSkillOnce(t) ==
    /\ CanCall(t)
    /\ \E skill_name \in SkillNames, code \in SkillTemplates :
          /\ skills' = IF skill_name \in DOMAIN skills
                       THEN skills ELSE Bind(skills, skill_name, code)
          /\ frame' = [frame EXCEPT ![t] = SavedFrame(skill_name, code)]
    /\ buffers' = WriteTo(sys_stdout, "Skill saved successfully", buffers)
    /\ UNCHANGED <<safe_globals, sys_stdout, sys_stderr, repeat>>

\* save_skill(skill_name, code); it prints a confirmation and returns None
SaveSkill(t) ==
    /\ CanCall(t)
    /\ \E skill_name \in SkillNames, code \in SkillTemplates :
          /\ skills' = Bind(skills, skill_name, code)
          /\ frame' = [frame EXCEPT ![t] = SavedFrame(skill_name, code)]
    /\ buffers' = WriteTo(sys_stdout, "Skill saved successfully", buffers)
    /\ UNCHANGED <<safe_globals, sys_stdout, sys_stderr, repeat>>

\* SkillFrame without the membership test: self.skills.get(skill_name, "")
SkillFrameUnchecked(skill_name, kwargs) ==
    AgentCodeFrame([IdleFrame EXCEPT !.entry = "execute_skill",
                                     !.skill_name = skill_name,
                                     !.kwargs = kwargs],
                   SubstituteKwargs(IF skill_name \in DOMAIN skills
                                    THEN skills[skill_name] ELSE <<>>, kwargs))

\* execute_skill(skill_name, **kwargs) up to its call of execute_code
SkillFrame(skill_name, kwargs) ==
    LET f == [IdleFrame EXCEPT !.entry = "execute_skill",
                               !.skill_name = skill_name,
                               !.kwargs = kwargs]
    IN  IF skill_name \notin DOMAIN skills
        THEN [f EXCEPT !.pc = "done", !.ret = Return(SkillNotFound(skill_name))]
        ELSE AgentCodeFrame(f, SubstituteKwargs(skills[skill_name], kwargs))

ExecuteSkill(t) ==
    /\ CanCall(t)
    /\ \E skill_name \in SkillNames, kwargs \in Kwargs :
          frame' = [frame EXCEPT ![t] = SkillFrame(skill_name, kwargs)]
    /\ repeat' = NoRepeat
    /\ UNCHANGED <<skills, safe_globals, sys_stdout, sys_stderr, buffers>>

\* the template with every marker {{k}} of the template replaced by
\* str(kwargs[k]); markers of other keys stay
ValueOf(kwargs, key) ==
    Str((CHOOSE kv \in {kwargs[i] : i \in 1..Len(kwargs)} : kv.key = key).value)

RECURSIVE MarkersReplaced(_, _)
MarkersReplaced(template, kwargs) ==
    IF template = <<>> THEN <<>>
    ELSE (IF \E i \in 1..Len(kwargs) : Marker(kwargs[i].key) = Head(template)
          THEN ValueOf(kwargs, (CHOOSE k \in Keys : Marker(k) = Head(template)))
          ELSE <<Head(template)>>)
         \o MarkersReplaced(Tail(template), kwargs)

\* after execute_skill of a saved skill has come back, the host calls
\* execute_agent_code on the template with its markers replaced, and keeps
\* the skill's outcome to compare
ExecuteSubstituted(t) ==
    /\ frame[t].pc = "done"
    /\ frame[t].entry = "execute_skill"
    /\ frame[t].skill_name \in DOMAIN skills
    /\ frame' = [frame EXCEPT ![t] =
                    AgentCodeFrame([IdleFrame EXCEPT !.entry = "execute_agent_code"],
                                   MarkersReplaced(skills[frame[t].skill_name],
                                                   frame[t].kwargs))]
    /\ repeat' = [kind |-> "substituted", first |-> frame[t].ret]
    /\ UNCHANGED <<skills, safe_globals, sys_stdout, sys_stderr, buffers>>

-----------------------------------------------------------------------------
(* The sandbox alone: one host thread calls execute_agent_code *)

Next ==
    \/ ExecuteAgentCode("main")
    \/ ExecuteAgentCodeAgain("main")
    \/ Redirect("main")
    \/ Compile("main")
    \/ ExecStep("main")
    \/ ReadResult("main")
    \/ Except("main")
    \/ Finally("main")
    \/ ReturnToHost("main")

Spec == Init /\ [][Next]_vars

-----------------------------------------------------------------------------
(* The agent: one host thread saves skills and runs them *)

SkillNext ==
    \/ SaveSkill("main")
    \/ ExecuteSkill("main")
    \/ ExecuteSubstituted("main")
    \/ Redirect("main")
    \/ Compile("main")
    \/ ExecStep("main")
    \/ ReadResult("main")
    \/ Except("main")
    \/ Finally("main")
    \/ ReturnToHost("main")

SkillSpec == Init /\ [][SkillNext]_vars

-----------------------------------------------------------------------------
(* Two threads of the host call execution_env.execute_code at the same   *)
(* time; their steps interleave                                          *)

ConcurrentStatements == {S_Write, S_WriteV, S_Raise}

ConcurrentSources == SeqsUpTo(ConcurrentStatements, MaxStmts)

\* thread t calls execution_env.execute_code(src)
ExecuteCode(t) ==
    /\ CanCall(t)
    /\ \E src \in ConcurrentSources :
          frame' = [frame EXCEPT ![t] =
                       [IdleFrame EXCEPT !.entry = "execute_code",
                                         !.code = src,
                                         !.pc = "execute_code"]]
    /\ UNCHANGED <<skills, safe_globals, sys_stdout, sys_stderr, buffers, repeat>>

ConcurrentNext ==
    \E t \in Threads :
        \/ ExecuteCode(t)
        \/ Redirect(t)
        \/ Compile(t)
        \/ ExecStep(t)
        \/ ReadResult(t)
        \/ Except(t)
        \/ Finally(t)

ConcurrentSpec == Init /\ [][ConcurrentNext]_vars

-----------------------------------------------------------------------------
(* Properties *)

Fields(envelope) == DOMAIN envelope

\* the call of thread t has come back to the host
Done(t) == frame[t].pc = "done"

\* the call of thread t ran the program to its last line
Completed(t) ==
    /\ Done(t)
    /\ "exec" \in frame[t].trace
    /\ frame[t].ip > Len(frame[t].byte_code.val)

\* the call of thread t started the program and a line of it raised
Stopped(t) ==
    /\ Done(t)
    /\ "exec" \in frame[t].trace
    /\ frame[t].ip <= Len(frame[t].byte_code.val)

\* the text parses and its tree holds an import statement that refers to a
\* module of the deny-list: import m, or from m import x
ImportsDenied(code) ==
    /\ AstParse(code).exc = NoException
    /\ \E i \in 1..Len(AstParse(code).tree) :
          LET n == AstParse(code).tree[i] IN
          \/ n.node = "Import" /\ \E j \in 1..Len(n.names) : n.names[j] \in DeniedModules
          \/ n.node = "ImportFrom" /\ n.module \in DeniedModules

\* C1: a source whose tree holds an import (either form) of a denied module
\* is refused by validate_code, and execute_agent_code gives back a failure
\* envelope without redirecting a stream, compiling, executing or calling a
\* capability.
C1_DeniedImportNeverRuns ==
    \A t \in Threads :
        (frame[t].entry = "execute_agent_code" /\ ImportsDenied(frame[t].code))
        => /\ ~ValidateCode(frame[t].code).value.valid
           /\ Done(t)
           /\ frame[t].ret.kind = "return"
           /\ ~frame[t].ret.value.success
           /\ frame[t].trace = {"validate"}

\* C2: every call that comes back gives the host one envelope with the four
\* fields success, output, result and error.
C2_EnvelopeHasFourFields ==
    \A t \in Threads :
        (Done(t) /\ frame[t].ret.kind = "return")
        => Fields(frame[t].ret.value) = {"success", "output", "result", "error"}

\* a fault was raised while the source of thread t's call was parsed,
\* compiled or executed
Faulted(t) ==
    \/ AstParse(frame[t].code).exc # NoException
    \/ "compile" \in frame[t].trace /\ "exec" \notin frame[t].trace
    \/ Stopped(t)

\* C3: no fault leaves execute_agent_code; a call during which a fault was
\* raised comes back with success=false and a non-empty error.
C3_NoFaultEscapes ==
    \A t \in Threads :
        Done(t)
        => /\ frame[t].ret.kind = "return"
           /\ Faulted(t) => /\ ~frame[t].ret.value.success
                            /\ frame[t].ret.value.error \notin {PyNone, PyStr("")}

\* C4: whenever no call of execute_code is in progress, sys.stdout and
\* sys.stderr are the streams they were before the calls; a call that
\* redirected them leaves them the objects it found on entry, on every path
\* out of execute_code.
C4_StreamsRestored ==
    (\A t \in Threads : frame[t].pc \in {"idle", "done"})
    => /\ sys_stdout = Console("out")
       /\ sys_stderr = Console("err")
       /\ \A t \in Threads :
             "redirect" \in frame[t].trace
             => /\ sys_stdout = frame[t].old_stdout
                /\ sys_stderr = frame[t].old_stderr

\* C4 witness: a call redirected the streams and an exception that
\* execute_code does not catch left it
C4_Witness ==
    /\ Done("main")
    /\ "redirect" \in frame["main"].trace
    /\ frame["main"].ret.kind = "raise"

\* the lines of a program that raise when Python runs them
RaisingLines ==
    {S_Raise, S_RaiseEmpty, S_RaiseBase, S_FromOs, S_ImportOs, S_MarkerA, S_MarkerB}

\* the index of the first raising line of a program, 0 if it has none
FirstRaise(code) ==
    IF \E i \in 1..Len(code) : code[i] \in RaisingLines
    THEN CHOOSE i \in 1..Len(code) :
            /\ code[i] \in RaisingLines
            /\ \A j \in 1..(i - 1) : code[j] \notin RaisingLines
    ELSE 0

\* the text the first n lines of a program write to standard output
RECURSIVE Written(_, _)
Written(code, n) ==
    IF n = 0 THEN ""
    ELSE Written(code, n - 1)
         \o (IF code[n] = S_Print THEN "p\n"
             ELSE IF code[n] = S_Write THEN "w"
             ELSE IF code[n] = S_WriteV THEN "v" ELSE "")

\* C5: a program that raises after writing text comes back with
\* success=false, a non-empty error, and in output exactly the text written
\* before the raising line (n printed lines give those n lines).
C5_PartialOutputKept ==
    \A t \in Threads :
        (Done(t) /\ "exec" \in frame[t].trace /\ FirstRaise(frame[t].code) > 0)
        => /\ frame[t].ret.kind = "return"
           /\ ~frame[t].ret.value.success
           /\ frame[t].ret.value.error \notin {PyNone, PyStr("")}
           /\ frame[t].ret.value.output =
                 PyStr(Written(frame[t].code, FirstRaise(frame[t].code) - 1))

\* the lines that assign the variable result at module level
AssignsResult(code) ==
    \E i \in 1..Len(code) :
        code[i] \in {S_Result, S_ReadGlobal, S_GetDoc,
                     S_GetMissing, S_NoSuchTool, S_BadOp, S_NoOp}

\* C6: on normal completion the envelope has success=true and no error, and
\* its result is the value bound to result in local_vars if the program
\* assigned it, None otherwise.
C6_ResultExtraction ==
    \A t \in Threads :
        Completed(t)
        => /\ frame[t].ret.kind = "return"
           /\ frame[t].ret.value.success
           /\ frame[t].ret.value.error = PyNone
           /\ AssignsResult(frame[t].code) <=> "result" \in DOMAIN frame[t].local_vars
           /\ frame[t].ret.value.result =
                 IF AssignsResult(frame[t].code)
                 THEN frame[t].local_vars["result"]
                 ELSE PyNone

\* C6 witness: a program that wrote text, assigned no result and completed
C6_Witness ==
    /\ Completed("main")
    /\ ~AssignsResult(frame["main"].code)
    /\ frame["main"].code # <<>>
    /\ frame["main"].ret.value.result = PyNone

\* C7: a program starts from the environment as constructed: between calls
\* and at the start of execute_code, the globals hold no binding made by an
\* earlier program.
C7_NoLeakBetweenCalls ==
    \A t \in Threads :
        frame[t].pc \in {"idle", "execute_code"} => safe_globals = SafeGlobalsInit

\* C8: execute_agent_code called again with the source of the call before
\* gives the same outcome as that call.
C8_Idempotent ==
    \A t \in Threads :
        (Done(t) /\ repeat.kind = "again") => frame[t].ret = repeat.first

\* C9: execute_skill on a saved template gives the same outcome as
\* execute_agent_code on the template with every marker {{k}} of the
\* template replaced by str(args[k]).
C9_SkillRoundTrip ==
    \A t \in Threads :
        (Done(t) /\ repeat.kind = "substituted") => frame[t].ret = repeat.first

\* C10: execute_skill with a name that is not in the store comes back at
\* once with success=false and an error naming the skill; nothing is
\* validated, compiled or executed, no capability is called, and the store,
\* the globals and the streams are unchanged.
C10_UnknownSkill ==
    [][ \A t \in Threads :
          ( /\ frame[t].pc = "idle"
            /\ frame'[t].entry = "execute_skill"
            /\ frame'[t].skill_name \notin DOMAIN skills )
          => /\ frame'[t].pc = "done"
             /\ frame'[t].ret =
                   Return([success |-> FALSE,
                           error |-> PyStr("Skill '" \o frame'[t].skill_name
                                           \o "' not found")])
             /\ frame'[t].trace = {}
             /\ UNCHANGED <<skills, safe_globals, sys_stdout, sys_stderr, buffers>>
      ]_vars

\* C10 witness: a skill is saved, and execute_skill was called with the
\* other name
C10_Witness ==
    /\ Done("main")
    /\ frame["main"].entry = "execute_skill"
    /\ frame["main"].skill_name \notin DOMAIN skills
    /\ DOMAIN skills # {}

\* the constructs of a syntax tree that the validator is to report: the
\* imports of a denied module (import m counts once per denied name, from m
\* import x once) and the calls of eval, exec or compile by name
RECURSIVE DeniedConstructs(_)
DeniedConstructs(tree) ==
    IF tree = <<>> THEN 0
    ELSE LET n == Head(tree) IN
         (CASE n.node = "Import" ->
                 Cardinality({j \in 1..Len(n.names) : n.names[j] \in DeniedModules})
            [] n.node = "ImportFrom" ->
                 IF n.module \in DeniedModules THEN 1 ELSE 0
            [] n.node = "Call" ->
                 IF n.func \in DeniedCalls THEN 1 ELSE 0
            [] OTHER -> 0)
         + DeniedConstructs(Tail(tree))

\* C11: for a source that parses, validate_code lists one violation for
\* every denied-module import and every by-name call of eval, exec or
\* compile in the tree (as many entries as constructs), and valid is false
\* exactly when the list is not empty.
C11_AllViolationsListed ==
    \A t \in Threads :
        ("validate" \in frame[t].trace /\ AstParse(frame[t].code).exc = NoException)
        => LET verdict == ValidateCode(frame[t].code).value IN
           /\ Len(verdict.errors) = DeniedConstructs(AstParse(frame[t].code).tree)
           /\ verdict.valid <=> verdict.errors = <<>>

\* the lines that call a capability in a way the capability reports as a
\* failure: unknown document, unknown service, unsupported operation, and
\* an exception inside the service (execute called without operation)
FailingCalls == {S_GetMissing, S_NoSuchTool, S_BadOp, S_NoOp}

CapabilityOf(stmt) ==
    IF stmt = S_GetMissing THEN "get_document" ELSE "call_mcp_tool"

\* the error message a capability's response carries, at its top level or
\* nested in its result; "" if it carries none
ReportedError(value) ==
    IF value.type # "dict" THEN ""
    ELSE IF "error" \in DOMAIN value.val THEN value.val.error
    ELSE IF /\ "result" \in DOMAIN value.val
            /\ value.val.result.type = "dict"
            /\ "error" \in DOMAIN value.val.result.val
    THEN value.val.result.val.error
    ELSE ""

\* C12: a failure reported by a capability comes back to the program as a
\* value and is never raised into it: a line that calls the capability
\* never stops the program, and a program whose last line stores the
\* response in result finishes with success=true, no error, and the
\* capability's error inside result ("Document not found" nested in the
\* result of the response for an unknown document).
C12_CapabilityFailureIsAValue ==
    \A t \in Threads :
        /\ (Stopped(t) /\ frame[t].code[frame[t].ip] \in FailingCalls)
           => Lookup(CapabilityOf(frame[t].code[frame[t].ip]),
                     frame[t].local_vars, safe_globals)
                 # PyFunction(CapabilityOf(frame[t].code[frame[t].ip]))
        /\ (Completed(t) /\ frame[t].code # <<>>
               /\ frame[t].code[Len(frame[t].code)] \in FailingCalls)
           => /\ frame[t].ret.kind = "return"
              /\ frame[t].ret.value.success
              /\ frame[t].ret.value.error = PyNone
              /\ ReportedError(frame[t].ret.value.result) # ""
              /\ frame[t].code[Len(frame[t].code)] = S_GetMissing
                 => /\ frame[t].ret.value.result.val.success
                    /\ frame[t].ret.value.result.val.result
                          = PyDict([error |-> "Document not found"])

\* C12 witness: a program asked for an unknown document and completed
C12_Witness ==
    /\ Completed("main")
    /\ frame["main"].code = <<S_GetMissing>>
    /\ "capability" \in frame["main"].trace

\* C12 witness of the exception inside the service: the program called the
\* tool without an operation and completed
C12_WitnessServiceRaised ==
    /\ Completed("main")
    /\ frame["main"].code = <<S_NoOp>>
    /\ "error" \in DOMAIN frame["main"].ret.value.result.val

\* C13: after a program that passed validation and compilation has run,
\* the shared environment binds the names it bound when it was constructed,
\* each to the same function or module, and no other name.
C13_RegistryNeverMutated ==
    \A t \in Threads :
        (Done(t) /\ "exec" \in frame[t].trace)
        => /\ DOMAIN safe_globals = DOMAIN SafeGlobalsInit
           /\ \A name \in DOMAIN SafeGlobalsInit :
                 safe_globals[name] = SafeGlobalsInit[name]

\* the texts a program can have written when it stops at one of its lines
\* or after the last
OwnOutputs(code) == {PyStr(Written(code, n)) : n \in 0..Len(code)}

\* C14: when execute_code runs in two threads at once, under every
\* interleaving of their steps the output of each envelope is made of text
\* its own program wrote, and once both calls have returned sys.stdout and
\* sys.stderr are the streams that were installed before the calls.
C14_ConcurrentCallsIsolated ==
    /\ \A t \in Threads :
          (Done(t) /\ frame[t].entry = "execute_code" /\ frame[t].ret.kind = "return")
          => frame[t].ret.value.output \in OwnOutputs(frame[t].code)
    /\ (\A t \in Threads : Done(t) /\ frame[t].entry = "execute_code")
       => /\ sys_stdout = Console("out")
          /\ sys_stderr = Console("err")

\* restricted compilation of the source reports an error, or reports none
\* and yields no compiled form
CompilationFaulted(code) ==
    \/ CompileRestrictedExec(code).error_log # <<>>
    \/ CompileRestrictedExec(code).byte_code = PyNone

\* C15: when restricted compilation reports an error, or none but no
\* compiled form, execute_code returns (never raises) an envelope with
\* success=false, a compilation error message and no result; no line of the
\* program has run, no capability was called, and the streams are the ones
\* found on entry.
C15_CompilationFault ==
    \A t \in Threads :
        (Done(t) /\ "compile" \in frame[t].trace /\ CompilationFaulted(frame[t].code))
        => /\ frame[t].ret.kind = "return"
           /\ ~frame[t].ret.value.success
           /\ frame[t].ret.value.error =
                 (IF CompileRestrictedExec(frame[t].code).error_log # <<>>
                  THEN PyStr("Compilation errors: "
                             \o ReprTuple(CompileRestrictedExec(frame[t].code).error_log))
                  ELSE PyStr("Compilation failed: returned None"))
           /\ frame[t].ret.value.result = PyNone
           /\ frame[t].trace \cap {"exec", "capability"} = {}
           /\ frame[t].ip = 0
           /\ frame[t].local_vars = EmptyDict
           /\ "restore" \in frame[t].trace
           /\ sys_stdout = frame[t].old_stdout
           /\ sys_stderr = frame[t].old_stderr

\* C15 witness: compilation reported no error and gave no compiled form
C15_Witness ==
    /\ Done("main")
    /\ "compile" \in frame["main"].trace
    /\ CompileRestrictedExec(frame["main"].code).error_log = <<>>
    /\ CompileRestrictedExec(frame["main"].code).byte_code = PyNone

\* C15 witness of the other case: the restricted grammar rejected a line
C15_WitnessErrorLog ==
    /\ Done("main")
    /\ "compile" \in frame["main"].trace
    /\ CompileRestrictedExec(frame["main"].code).error_log # <<>>

\* the step is thread t's call of save_skill
IsSave(t) == frame[t].pc = "idle" /\ frame'[t].entry = "save_skill"

\* C16: a call save_skill(name, template) leaves the store mapping name to
\* template, whether or not name was saved before, and every other name to
\* what it mapped to; saving what the store already holds leaves the store
\* as it was; and no other step (execute_skill of a saved or an unknown
\* name, and everything its program does) changes the store.
C16_StoreHoldsLastSave ==
    [][ /\ \A t \in Threads :
              IsSave(t)
              => /\ DOMAIN skills' = DOMAIN skills \cup {frame'[t].skill_name}
                 /\ skills'[frame'[t].skill_name] = frame'[t].code
                 /\ \A name \in DOMAIN skills \ {frame'[t].skill_name} :
                       skills'[name] = skills[name]
                 /\ ( /\ frame'[t].skill_name \in DOMAIN skills
                      /\ skills[frame'[t].skill_name] = frame'[t].code )
                    => skills' = skills
        /\ (\A t \in Threads : ~IsSave(t)) => skills' = skills
      ]_vars

\* C16 witness: both names are saved, the call that just came back saved a
\* template over the other name's, and the store holds the two
C16_Witness ==
    /\ Done("main")
    /\ frame["main"].entry = "save_skill"
    /\ DOMAIN skills = SkillNames
    /\ \E other \in SkillNames \ {frame["main"].skill_name} :
          skills[other] # frame["main"].code

=============================================================================
